---- MODULE Spec2Model ----
(***************************************************************************)
(* Model of the Slack MCP server in src/src/slack/index.ts: the            *)
(* CallToolRequestSchema handler (the dispatcher, "invoke"), the           *)
(* SlackClient gateway methods it routes to, and the two file transfer     *)
(* procedures downloadThreadFiles and uploadFileToThread.                  *)
(*                                                                         *)
(* One behaviour follows one invocation from the arrival of the request    *)
(* to the value the handler returns, and goes on with the file transfers   *)
(* that are still in flight after the handler has returned.                *)
(*                                                                         *)
(* Conventions.                                                            *)
(*   - A JavaScript string value is [s |-> "..."], a number [n |-> k];     *)
(*     an absent property is a key that is not in the DOMAIN of the        *)
(*     arguments object.                                                   *)
(*   - An Error message built by a template literal is the sequence of     *)
(*     its parts (the literal text, then the interpolated values); words   *)
(*     that name an argument are parts of their own.                       *)
(*   - JSON.stringify yields the sequence of the tokens of the JSON text:  *)
(*     "{", key, ":", value, ..., "}" for an object, "[", item, ..., "]"   *)
(*     for an array.                                                       *)
(*   - A file name is the sequence of its characters; a path is the        *)
(*     sequence of its segments.                                           *)
(***************************************************************************)
EXTENDS Integers, Sequences, FiniteSets, TLC

VARIABLES
    pc,            \* where the handler is: "idle", an await point, "returned", "thrown"
    request,       \* request.params of the CallToolRequest being handled
    result,        \* the value the handler returned
    calls,         \* how many times the switch invoked each tool's executor
    net,           \* the remote HTTP requests issued so far, in order
    process,       \* "running", or "crashed" after an uncaught exception
    folderExists,  \* whether output_folder exists on the local disk
    localFile,     \* what upload found at file_path: "missing", "unreadable", "readable"
    transfers,     \* downloadThreadFiles: the per-file promises, in enumeration order
    fileNames,     \* downloadThreadFiles: the local array fileNames
    disk,          \* the local paths written by the download, path -> "partial" | "complete"
    upload,        \* uploadFileToThread: its local variables upload_url, file_id
    threadData,    \* downloadThreadFiles: the body of the thread fetch
    atReturn,      \* history: the per-file promises as they were when the handler returned
    urlData,       \* uploadFileToThread: the parsed answer of files.getUploadURLExternal
    uploadResponse,\* uploadFileToThread: the answer of the POST to the upload URL
    response,      \* the body a gateway method or files.completeUploadExternal returned
    attachment,    \* the file.name whose local path is being computed
    localPath,     \* the path that name is written to, once created
    invocations    \* the calls of the handler in flight together, each with its locals

vars == <<pc, request, result, calls, net, process, folderExists, localFile,
          transfers, fileNames, disk, upload, threadData, atReturn,
          urlData, uploadResponse, response, attachment, localPath,
          invocations>>

----------------------------------------------------------------------------
(* Bounds of the model. *)

\* The longest thread (number of messages) the remote answers with.
MaxMessages == 2

\* The largest number of attachments in one thread.
MaxFiles == 2

----------------------------------------------------------------------------
(* JavaScript values. *)

Str(x) == [s |-> x]

Num(k) == [n |-> k]

Undefined == [undefined |-> TRUE]

NoResult == [none |-> TRUE]

\* !v for the values an argument can take.
Falsy(v) == v = Undefined \/ v = Str("") \/ v = Num(0)

\* obj.key, undefined when the object has no such property.
Get(obj, key) == IF key \in DOMAIN obj THEN obj[key] ELSE Undefined

Range(seq) == {seq[i] : i \in 1..Len(seq)}

\* Mutant of Min: the first operand is passed through.
Min_Unclamped(a, b) == a

Min(a, b) == IF a < b THEN a ELSE b

----------------------------------------------------------------------------
(* The tool descriptors. *)

\* The catalog, in the order the ListTools handler returns it.
ToolList ==
    << "slack_list_channels", "slack_post_message", "slack_reply_to_thread",
       "slack_add_reaction", "slack_get_channel_history",
       "slack_get_thread_replies", "slack_get_users", "slack_get_user_profile",
       "slack_download_thread_files", "slack_upload_file_to_thread" >>

ToolNames == Range(ToolList)

\* inputSchema.properties of each descriptor.
Properties(name) ==
    CASE name = "slack_list_channels" -> {"limit", "cursor"}
      [] name = "slack_post_message" -> {"channel_id", "text"}
      [] name = "slack_reply_to_thread" -> {"channel_id", "thread_ts", "text"}
      [] name = "slack_add_reaction" -> {"channel_id", "timestamp", "reaction"}
      [] name = "slack_get_channel_history" -> {"channel_id", "limit"}
      [] name = "slack_get_thread_replies" -> {"channel_id", "thread_ts"}
      [] name = "slack_get_users" -> {"cursor", "limit"}
      [] name = "slack_get_user_profile" -> {"user_id"}
      [] name = "slack_download_thread_files" ->
             {"channel_id", "thread_ts", "output_folder"}
      [] name = "slack_upload_file_to_thread" ->
             {"channel_id", "thread_ts", "file_path", "title", "initial_comment"}
      [] OTHER -> {"channel_id"}

\* inputSchema.required of each descriptor (absent: the empty list).
Required(name) ==
    CASE name = "slack_list_channels" -> << >>
      [] name = "slack_post_message" -> <<"channel_id", "text">>
      [] name = "slack_reply_to_thread" -> <<"channel_id", "thread_ts", "text">>
      [] name = "slack_add_reaction" -> <<"channel_id", "timestamp", "reaction">>
      [] name = "slack_get_channel_history" -> <<"channel_id">>
      [] name = "slack_get_thread_replies" -> <<"channel_id", "thread_ts">>
      [] name = "slack_get_users" -> << >>
      [] name = "slack_get_user_profile" -> <<"user_id">>
      [] name = "slack_download_thread_files" ->
             <<"channel_id", "thread_ts", "output_folder">>
      [] name = "slack_upload_file_to_thread" ->
             <<"channel_id", "thread_ts", "file_path">>
      [] OTHER -> << >>

----------------------------------------------------------------------------
(* The requests the model sends. *)

\* Tool names that no case of the switch matches.
UnknownNames == {"slack_delete_message", ""}

RequestNames == ToolNames \cup UnknownNames

LimitValues == {Num(50), Num(200), Num(201)}

StringValues == {Str(""), Str("v")}

ValuesOf(key) == IF key = "limit" THEN LimitValues ELSE StringValues

\* The argument objects over the keys S.
BagsOver(S) ==
    {f \in [S -> LimitValues \cup StringValues] : \A k \in S : f[k] \in ValuesOf(k)}

\* request.params.arguments: undefined, or an object holding any subset of
\* the properties of the tool's schema.
ArgumentsOf(name) ==
    {Undefined} \cup UNION {BagsOver(S) : S \in SUBSET Properties(name)}

----------------------------------------------------------------------------
(* Error messages and the response envelope. *)

NoArgumentsMessage == <<"No arguments provided">>

\* Mutant of UnknownToolMessage: the name is left out of the message.
UnknownToolMessage_NoName(name) == <<"Unknown tool:">>

UnknownToolMessage(name) == <<"Unknown tool:", name>>

\* Mutant of MissingMessage: one message for every tool, naming no field.
MissingMessage_Generic(name) == <<"Missing required arguments">>

\* The literal of the throw in each case of the switch.
MissingMessage(name) ==
    CASE name = "slack_post_message" ->
             <<"Missing required arguments:", "channel_id", "and", "text">>
      [] name = "slack_reply_to_thread" ->
             <<"Missing required arguments:", "channel_id", "thread_ts", "and", "text">>
      [] name = "slack_add_reaction" ->
             <<"Missing required arguments:", "channel_id", "timestamp", "and", "reaction">>
      [] name = "slack_get_channel_history" ->
             <<"Missing required argument:", "channel_id">>
      [] name = "slack_get_thread_replies" ->
             <<"Missing required arguments:", "channel_id", "and", "thread_ts">>
      [] name = "slack_get_user_profile" ->
             <<"Missing required argument:", "user_id">>
      [] name = "slack_download_thread_files" ->
             <<"Missing required arguments:", "channel_id", "thread_ts", "and",
               "output_folder">>
      [] name = "slack_upload_file_to_thread" ->
             <<"Missing required arguments:", "channel_id", "thread_ts", "and",
               "file_path">>
      [] OTHER -> << >>

\* JSON.stringify of an object whose own keys are, in order, keys.
JSONstringify(keys, obj) ==
    LET Member(i) == <<keys[i], ":", obj[keys[i]]>>
        Members[i \in 0..Len(keys)] ==
            IF i = 0 THEN << >> ELSE Members[i - 1] \o Member(i)
    IN  <<"{">> \o Members[Len(keys)] \o <<"}">>

\* JSON.stringify of an array.
JSONstringifyArray(arr) == <<"[">> \o arr \o <<"]">>

\* Mutant of Content: the text is pushed twice.
Content_TwoItems(text) ==
    [content |-> << [type |-> "text", text |-> text], [type |-> "text", text |-> text] >>]

\* { content: [{ type: "text", text }] }
Content(text) == [content |-> << [type |-> "text", text |-> text] >>]

\* The return of a case of the switch: the executor's response, serialized.
SuccessResult(text) == [pc |-> "returned", result |-> Content(text)]

\* Mutant of CatchResult: the catch block throws the error on.
CatchResult_Rethrows(message) == [pc |-> "thrown", result |-> NoResult]

\* The catch block of the handler: the error's message, serialized as {error}.
CatchResult(message) ==
    [pc |-> "returned",
     result |-> Content(JSONstringify(<<"error">>, [error |-> message]))]

----------------------------------------------------------------------------
(* The dispatcher: the checks of the handler before it calls an executor. *)

\* Mutant of Checked: the case of slack_get_user_profile tests nothing.
Checked_SkipsUserId(name) == Range(Required(name)) \ {"user_id"}

\* The arguments each case of the switch tests with !args.<field>.
Checked(name) ==
    CASE name = "slack_list_channels" -> {}
      [] name = "slack_post_message" -> {"channel_id", "text"}
      [] name = "slack_reply_to_thread" -> {"channel_id", "thread_ts", "text"}
      [] name = "slack_add_reaction" -> {"channel_id", "timestamp", "reaction"}
      [] name = "slack_get_channel_history" -> {"channel_id"}
      [] name = "slack_get_thread_replies" -> {"channel_id", "thread_ts"}
      [] name = "slack_get_users" -> {}
      [] name = "slack_get_user_profile" -> {"user_id"}
      [] name = "slack_download_thread_files" ->
             {"channel_id", "thread_ts", "output_folder"}
      [] name = "slack_upload_file_to_thread" ->
             {"channel_id", "thread_ts", "file_path"}
      [] OTHER -> {}

\* Mutant of ArgumentsMissing: the check of request.params.arguments is gone.
ArgumentsMissing_Never(params) == FALSE

\* Whether the handler throws "No arguments provided".
ArgumentsMissing(params) == params.arguments = Undefined

\* The message of the Error the handler throws before any executor is
\* called, << >> when it throws none.
Validation(params) ==
    IF ArgumentsMissing(params) THEN NoArgumentsMessage
    ELSE IF params.name \notin ToolNames THEN UnknownToolMessage(params.name)
    ELSE IF \E f \in Checked(params.name) : Falsy(Get(params.arguments, f))
         THEN MissingMessage(params.name)
    ELSE << >>

GatewayTools ==
    ToolNames \ {"slack_download_thread_files", "slack_upload_file_to_thread"}

Requests ==
    UNION {{[name |-> n, arguments |-> a] : a \in ArgumentsOf(n)} : n \in RequestNames}

----------------------------------------------------------------------------
(* The remote side. *)

\* The order in which the remote writes the keys of a response body.
KeysOf(body) ==
    SelectSeq(<<"ok", "error", "detail", "upload_url", "file_id", "messages">>,
              LAMBDA k : k \in DOMAIN body)

\* What an awaited fetch(...) followed by response.json() can come to: the
\* parsed body, a rejected fetch, or a body that is not JSON.
FetchFailures ==
    {[kind |-> "reject", message |-> <<"fetch failed">>],
     [kind |-> "unparsable", message |-> <<"Unexpected token < in JSON at position 0">>]}

\* The Slack envelopes of the pass-through endpoints.
GatewayBodies == {[ok |-> TRUE], [ok |-> FALSE, error |-> "channel_not_found"]}

DefaultListLimit == 100

MaxListLimit == 200

DefaultHistoryLimit == 10

\* The limit parameter as the default parameter value leaves it.
LimitOr(args, default) ==
    IF "limit" \in DOMAIN args THEN args["limit"].n ELSE default

\* The HTTP request each gateway method issues.
GatewayRequest(name, args) ==
    CASE name = "slack_list_channels" ->
             [endpoint |-> "conversations.list",
              limit |-> Min(LimitOr(args, DefaultListLimit), MaxListLimit)]
      [] name = "slack_post_message" -> [endpoint |-> "chat.postMessage"]
      [] name = "slack_reply_to_thread" ->
             [endpoint |-> "chat.postMessage", thread_ts |-> Get(args, "thread_ts")]
      [] name = "slack_add_reaction" -> [endpoint |-> "reactions.add"]
      [] name = "slack_get_channel_history" ->
             [endpoint |-> "conversations.history",
              limit |-> LimitOr(args, DefaultHistoryLimit)]
      [] name = "slack_get_thread_replies" -> [endpoint |-> "conversations.replies"]
      [] name = "slack_get_users" ->
             [endpoint |-> "users.list",
              limit |-> Min(LimitOr(args, DefaultListLimit), MaxListLimit)]
      [] name = "slack_get_user_profile" -> [endpoint |-> "users.profile.get"]

----------------------------------------------------------------------------
(* The handler up to its first await, and the pass-through tools. *)

Settle(outcome) ==
    /\ pc' = outcome.pc
    /\ result' = outcome.result

Init ==
    /\ pc = "idle"
    /\ request = Undefined
    /\ result = NoResult
    /\ calls = [n \in ToolNames |-> 0]
    /\ net = << >>
    /\ process = "running"
    /\ folderExists \in BOOLEAN
    /\ localFile = "unread"
    /\ transfers = << >>
    /\ fileNames = << >>
    /\ disk = << >>
    /\ upload = [upload_url |-> "", file_id |-> ""]
    /\ threadData = Undefined
    /\ atReturn = << >>
    /\ urlData = Undefined
    /\ uploadResponse = Undefined
    /\ response = Undefined
    /\ attachment = Undefined
    /\ localPath = << >>
    /\ invocations = << >>

\* A request that the handler answers without calling an executor.
ReceiveInvalid ==
    /\ pc = "idle"
    /\ process = "running"
    /\ \E params \in Requests :
          /\ Validation(params) # << >>
          /\ request' = params
          /\ Settle(CatchResult(Validation(params)))
    /\ UNCHANGED <<calls, net, process, folderExists, localFile, transfers,
                   fileNames, disk, upload,
                   threadData, atReturn,
                   urlData, uploadResponse, response, attachment, localPath, invocations>>

\* Mutant of PassThrough: an ok:false body is thrown as an error.
PassThrough_ChecksOk(body) ==
    IF body.ok
    THEN SuccessResult(JSONstringify(KeysOf(body), body))
    ELSE CatchResult(<<Get(body, "error")>>)

\* return response.json() in the gateway, JSON.stringify(response) in the
\* case of the switch: the parsed body is the payload, whatever its ok says.
PassThrough(body) == SuccessResult(JSONstringify(KeysOf(body), body))

\* A request for one of the eight pass-through tools: the gateway method is
\* called and issues its HTTP request.
ReceiveGateway ==
    /\ pc = "idle"
    /\ process = "running"
    /\ \E params \in Requests :
          /\ Validation(params) = << >>
          /\ params.name \in GatewayTools
          /\ request' = params
          /\ calls' = [calls EXCEPT ![params.name] = @ + 1]
          /\ net' = Append(net, GatewayRequest(params.name, params.arguments))
    /\ pc' = "gateway"
    /\ UNCHANGED <<result, process, folderExists, localFile, transfers,
                   fileNames, disk, upload,
                   threadData, atReturn,
                   urlData, uploadResponse, response, attachment, localPath, invocations>>

\* The remote answers a pass-through call: the handler returns the parsed
\* body as it is, or the message of the error.
GatewayRespond ==
    /\ pc = "gateway"
    /\ process = "running"
    /\ \/ \E body \in GatewayBodies :
             /\ response' = body
             /\ Settle(PassThrough(body))
       \/ /\ \E f \in FetchFailures : Settle(CatchResult(f.message))
          /\ UNCHANGED response
    /\ UNCHANGED <<request, calls, net, process, folderExists, localFile,
                   transfers, fileNames, disk, upload, threadData, atReturn,
                   urlData, uploadResponse, attachment, localPath, invocations>>

----------------------------------------------------------------------------
(* downloadThreadFiles. *)

\* The attachment names the remote supplies.
FileNameSet == {<<"a">>, <<"b", "/", "c">>}

NameLists == UNION {[1..k -> FileNameSet] : k \in 0..MaxFiles}

\* A message of the thread: with no files property, or with the files of
\* the given names (none: an empty files array).
MessageShapes ==
    {[hasFiles |-> FALSE, names |-> << >>]}
        \cup {[hasFiles |-> TRUE, names |-> l] : l \in NameLists}

\* The number of files in the first i messages of t.
ShapeFiles(t, i) ==
    IF i = 0 THEN 0
    ELSE LET Count[j \in 0..i] == IF j = 0 THEN 0 ELSE Count[j - 1] + Len(t[j].names)
         IN  Count[i]

\* The message objects of a thread; url_private tells the remote files apart.
MessagesOf(t) ==
    [i \in 1..Len(t) |->
        IF t[i].hasFiles
        THEN [text |-> "m",
              files |-> [j \in 1..Len(t[i].names) |->
                            [name |-> t[i].names[j], url_private |-> <<i, j>>]]]
        ELSE [text |-> "m"]]

Threads ==
    {MessagesOf(t) :
        t \in {u \in UNION {[1..k -> MessageShapes] : k \in 0..MaxMessages} :
                  ShapeFiles(u, Len(u)) <= MaxFiles}}

\* The bodies conversations.replies answers the download's fetch with.
ThreadBodies ==
    {[ok |-> FALSE, error |-> "thread_not_found"], [ok |-> TRUE]}
        \cup {[ok |-> TRUE, messages |-> m] : m \in Threads}

\* message.files && message.files.length > 0
HasFiles(message) == "files" \in DOMAIN message /\ Len(message.files) > 0

\* Mutant of EnumerateFiles: only the first file of each message is taken.
EnumerateFiles_FirstOfEach(messages) ==
    LET Upto[i \in 0..Len(messages)] ==
            IF i = 0 THEN << >>
            ELSE IF HasFiles(messages[i]) THEN Append(Upto[i - 1], messages[i].files[1])
            ELSE Upto[i - 1]
    IN  Upto[Len(messages)]

\* threadData.messages.filter(...).flatMap(message => message.files...):
\* the files of the messages that carry some, in message and attachment order.
EnumerateFiles(messages) ==
    LET Upto[i \in 0..Len(messages)] ==
            IF i = 0 THEN << >>
            ELSE IF HasFiles(messages[i]) THEN Upto[i - 1] \o messages[i].files
            ELSE Upto[i - 1]
    IN  Upto[Len(messages)]

\* The class of the regular expression /[/\\?%*:|"<>]/g.
UnsafeChars == {"/", "\\", "?", "%", "*", ":", "|", "\"", "<", ">"}

\* Mutant of Sanitize: replace without the g flag, the first match only.
Sanitize_FirstOnly(name) ==
    [i \in 1..Len(name) |->
        IF name[i] \in UnsafeChars /\ \A j \in 1..(i - 1) : name[j] \notin UnsafeChars
        THEN "_"
        ELSE name[i]]

\* file.name.replace(/[/\\?%*:|"<>]/g, '_')
Sanitize(name) ==
    [i \in 1..Len(name) |-> IF name[i] \in UnsafeChars THEN "_" ELSE name[i]]

\* path.join(output_folder, segment) for a segment without separators: the
\* joined path, normalized.
PathJoin(folder, segment) ==
    IF segment = << >> \/ segment = <<".">> THEN <<folder>>
    ELSE IF segment = <<".", ".">> THEN <<".">>
    ELSE <<folder, segment>>

\* The joined path names a directory: the output folder or its parent.
IsDirectory(path) == Len(path) < 2

\* fs.createWriteStream(path): the file is created, or truncated, unless the
\* path is a directory, where the open fails.
OpenForWrite(d, path) ==
    IF IsDirectory(path) THEN d ELSE (path :> "partial") @@ d

\* The promises created by the map callback, one per file, each with its
\* https.get issued.
StartTransfers(folder, files) ==
    [i \in 1..Len(files) |->
        [fileName |-> PathJoin(folder, Sanitize(files[i].name)),
         url |-> files[i].url_private,
         state |-> "requested",
         error |-> << >>,
         opened |-> FALSE,
         unlink |-> "none"]]

FileRequests(files) ==
    [i \in 1..Len(files) |-> [endpoint |-> "file", url |-> files[i].url_private]]

\* Mutant of PromiseAll: Promise.allSettled, which never rejects.
PromiseAll_AllSettled(trs) ==
    IF \A i \in 1..Len(trs) : trs[i].state \in {"done", "failed"} THEN "fulfilled"
    ELSE "pending"

\* The state of Promise.all(promises).
PromiseAll(trs) ==
    IF \E i \in 1..Len(trs) : trs[i].state = "failed" THEN "rejected"
    ELSE IF \A i \in 1..Len(trs) : trs[i].state = "done" THEN "fulfilled"
    ELSE "pending"

\* The reason Promise.all rejected with: that of the first promise rejected.
RejectionOf(trs) ==
    trs[CHOOSE i \in 1..Len(trs) : trs[i].state = "failed"].error

\* The promises of the transfers: pending, fulfilled ("done") or rejected
\* ("failed") with a reason.
PromiseStates(trs) ==
    [i \in 1..Len(trs) |->
        [state |-> IF trs[i].state \in {"done", "failed"} THEN trs[i].state
                   ELSE "pending",
         error |-> trs[i].error]]

\* await Promise.all(promises); return fileNames; and the handler's return.
AwaitAll(trs, names) ==
    IF pc = "files" /\ PromiseAll(trs) = "rejected"
    THEN Settle(CatchResult(RejectionOf(trs))) /\ atReturn' = PromiseStates(trs)
    ELSE IF pc = "files" /\ PromiseAll(trs) = "fulfilled"
    THEN Settle(SuccessResult(JSONstringifyArray(names))) /\ atReturn' = PromiseStates(trs)
    ELSE UNCHANGED <<pc, result, atReturn>>

OutputFolder == request.arguments["output_folder"].s

\* A valid download request: the executor is called and fetches the thread.
ReceiveDownload ==
    /\ pc = "idle"
    /\ process = "running"
    /\ \E params \in Requests :
          /\ Validation(params) = << >>
          /\ params.name = "slack_download_thread_files"
          /\ request' = params
          /\ calls' = [calls EXCEPT ![params.name] = @ + 1]
    /\ net' = Append(net, [endpoint |-> "conversations.replies"])
    /\ pc' = "thread"
    /\ UNCHANGED <<result, process, folderExists, localFile, transfers,
                   fileNames, disk, upload,
                   threadData, atReturn,
                   urlData, uploadResponse, response, attachment, localPath, invocations>>

\* The thread fetch fails (network, or a body that is not JSON).
ThreadFetchFails ==
    /\ pc = "thread"
    /\ process = "running"
    /\ \E f \in FetchFailures : Settle(CatchResult(f.message))
    /\ UNCHANGED <<request, calls, net, process, folderExists, localFile,
                   transfers, fileNames, disk, upload,
                   threadData, atReturn,
                   urlData, uploadResponse, response, attachment, localPath, invocations>>

\* Mutant of ThreadDataError: the remote error is left out of the message.
ThreadDataError_NoReason(body) == <<"Failed to get thread data">>

\* throw new Error(`Failed to get thread data: ${threadData.error}`)
ThreadDataError(body) == <<"Failed to get thread data:", Get(body, "error")>>

\* The thread fetch answers: the rest of downloadThreadFiles up to
\* await Promise.all.
ThreadRespond ==
    /\ pc = "thread"
    /\ process = "running"
    /\ \E body \in ThreadBodies :
          /\ threadData' = body
          /\ IF ~body.ok
             THEN /\ Settle(CatchResult(ThreadDataError(body)))
                  /\ UNCHANGED <<net, transfers>>
             ELSE IF ~folderExists
             THEN /\ Settle(CatchResult(<<"Output folder does not exist:",
                                          OutputFolder>>))
                  /\ UNCHANGED <<net, transfers>>
             ELSE IF "messages" \notin DOMAIN body
             THEN /\ Settle(CatchResult(
                         <<"Cannot read properties of undefined (reading 'filter')">>))
                  /\ UNCHANGED <<net, transfers>>
             ELSE LET files == EnumerateFiles(body.messages)
                  IN  /\ transfers' = StartTransfers(OutputFolder, files)
                      /\ net' = net \o FileRequests(files)
                      /\ IF files = << >>
                         THEN Settle(SuccessResult(JSONstringifyArray(fileNames)))
                         ELSE pc' = "files" /\ UNCHANGED result
    /\ UNCHANGED <<request, calls, process, folderExists, localFile, fileNames,
                   disk, upload, atReturn,
                   urlData, uploadResponse, response, attachment, localPath, invocations>>

StatusCodes == {200, 404}

\* The response callback of https.get: a status other than 200 rejects, 200
\* creates the write stream and pipes the response into it.
FileResponse(i) ==
    /\ process = "running"
    /\ i \in 1..Len(transfers)
    /\ transfers[i].state = "requested"
    /\ \E statusCode \in StatusCodes :
          IF statusCode # 200
          THEN /\ transfers' = [transfers EXCEPT
                                   ![i].state = "failed",
                                   ![i].error = <<"Failed to download file:", statusCode>>]
               /\ UNCHANGED disk
          ELSE /\ transfers' = [transfers EXCEPT
                                   ![i].state = "streaming",
                                   ![i].opened = ~IsDirectory(transfers[i].fileName)]
               /\ disk' = OpenForWrite(disk, transfers[i].fileName)
    /\ AwaitAll(transfers', fileNames)
    /\ UNCHANGED <<request, calls, net, process, folderExists, localFile,
                   fileNames, upload,
                   threadData,
                   urlData, uploadResponse, response, attachment, localPath, invocations>>

\* Mutant of Unlink: the file is left where it is.
Unlink_Keeps(d, path) == d

\* The directory once path has been unlinked.
Unlink(d, path) == [p \in DOMAIN d \ {path} |-> d[p]]

\* fileRequest.on('error'): fs.unlink(fileName, () => {}) is started and the
\* promise rejected at once, without waiting for the unlink.
FileRequestError(i) ==
    /\ process = "running"
    /\ i \in 1..Len(transfers)
    /\ transfers[i].state \in {"requested", "streaming"}
    /\ transfers' = [transfers EXCEPT ![i].state = "failed",
                                      ![i].error = <<"socket hang up">>,
                                      ![i].unlink = "pending"]
    /\ AwaitAll(transfers', fileNames)
    /\ UNCHANGED <<request, calls, net, process, folderExists, localFile,
                   fileNames, disk, upload,
                   threadData,
                   urlData, uploadResponse, response, attachment, localPath, invocations>>

\* The unlink started by fileRequest.on('error') completes: the file at the
\* path is removed, or the unlink fails (no such file, or not permitted) and
\* the empty callback ignores the error.
UnlinkComplete(i) ==
    /\ process = "running"
    /\ i \in 1..Len(transfers)
    /\ transfers[i].unlink = "pending"
    /\ \/ /\ transfers[i].fileName \in DOMAIN disk
          /\ disk' = Unlink(disk, transfers[i].fileName)
          /\ transfers' = [transfers EXCEPT ![i].unlink = "done"]
       \/ /\ transfers' = [transfers EXCEPT ![i].unlink = "failed"]
          /\ UNCHANGED disk
    /\ UNCHANGED <<pc, request, result, calls, net, process, folderExists,
                   localFile, fileNames, upload, threadData, atReturn,
                   urlData, uploadResponse, response, attachment, localPath, invocations>>

\* fileStream.on('finish'): the path is pushed and the promise resolved.
FileFinish(i) ==
    /\ process = "running"
    /\ i \in 1..Len(transfers)
    /\ transfers[i].state = "streaming"
    /\ transfers' = [transfers EXCEPT ![i].state = "done"]
    /\ fileNames' = Append(fileNames, transfers[i].fileName)
    /\ disk' = [p \in DOMAIN disk |->
                   IF p = transfers[i].fileName THEN "complete" ELSE disk[p]]
    /\ AwaitAll(transfers', fileNames')
    /\ UNCHANGED <<request, calls, net, process, folderExists, localFile, upload,
                   threadData,
                   urlData, uploadResponse, response, attachment, localPath, invocations>>

\* The response stream ends early: IncomingMessage emits no 'error' without
\* a listener, the write stream is never ended, the promise never settles.
FileResponseAborted(i) ==
    /\ process = "running"
    /\ i \in 1..Len(transfers)
    /\ transfers[i].state = "streaming"
    /\ transfers' = [transfers EXCEPT ![i].state = "stalled"]
    /\ UNCHANGED <<pc, request, result, calls, net, process, folderExists,
                   localFile, fileNames, disk, upload,
                   threadData, atReturn,
                   urlData, uploadResponse, response, attachment, localPath, invocations>>

\* The write stream emits 'error' (the path cannot be opened or written):
\* no listener is attached to it, so the error is an uncaught exception.
FileWriteError(i) ==
    /\ process = "running"
    /\ i \in 1..Len(transfers)
    /\ transfers[i].state = "streaming"
    /\ process' = "crashed"
    /\ UNCHANGED <<pc, request, result, calls, net, folderExists, localFile,
                   transfers, fileNames, disk, upload,
                   threadData, atReturn,
                   urlData, uploadResponse, response, attachment, localPath, invocations>>

----------------------------------------------------------------------------
(* The local path of one attachment, for names of every shape. *)

\* The longest attachment name (the example of the safe-filename rule aside).
MaxNameLen == 2

AttachmentChars == UnsafeChars \cup {"a", "."}

AttachmentNames ==
    UNION {[1..n -> AttachmentChars] : n \in 0..MaxNameLen}
        \cup {<<"a", "/", "b", "\\", "c", "?", "d">>}

Folders == {"v", "out"}

\* The map callback up to the https.get: the local path of a file is the
\* output folder joined with the sanitized name.
NameFile ==
    /\ pc = "idle"
    /\ process = "running"
    /\ folderExists
    /\ attachment = Undefined
    /\ \E folder \in Folders, name \in AttachmentNames :
          /\ attachment' = [output_folder |-> folder, name |-> name]
          /\ localPath' = PathJoin(folder, Sanitize(name))
    /\ UNCHANGED <<pc, request, result, calls, net, process, folderExists,
                   localFile, transfers, fileNames, disk, upload, threadData,
                   atReturn, urlData, uploadResponse, response, invocations>>

\* The response callback with status 200: fs.createWriteStream(fileName). A
\* path that is a directory cannot be opened: the stream emits 'error',
\* which has no listener.
CreateWriteStream ==
    /\ process = "running"
    /\ localPath # << >>
    /\ localPath \notin DOMAIN disk
    /\ disk' = OpenForWrite(disk, localPath)
    /\ process' = IF IsDirectory(localPath) THEN "crashed" ELSE process
    /\ UNCHANGED <<pc, request, result, calls, net, folderExists, localFile,
                   transfers, fileNames, upload, threadData, atReturn,
                   urlData, uploadResponse, response, attachment, localPath, invocations>>

SanitizeNext ==
    \/ NameFile
    \/ CreateWriteStream

----------------------------------------------------------------------------
(* uploadFileToThread. *)

\* The bodies files.getUploadURLExternal answers with.
NegotiateBodies ==
    {[ok |-> TRUE, upload_url |-> "https://files.slack.com/upload/v1/abc", file_id |-> "F1"],
     [ok |-> FALSE, error |-> "invalid_auth"],
     [ok |-> FALSE, error |-> "invalid_arguments", detail |-> "length is required"],
     [ok |-> FALSE]}

\* Mutant of SlackApiError: the detail of the answer is left out.
SlackApiError_NoDetail(data) ==
    <<"Slack API error:",
      IF "error" \in DOMAIN data THEN data.error ELSE "Unknown error">>

\* The message thrown for an ok:false answer of files.getUploadURLExternal.
SlackApiError(data) ==
    <<"Slack API error:",
      IF "error" \in DOMAIN data THEN data.error ELSE "Unknown error">>
        \o (IF "detail" \in DOMAIN data THEN <<"-", data.detail>> ELSE << >>)

\* The catch around steps 1 and 2 rethrows every error under one prefix.
UploadUrlError(message) == <<"Failed to get upload URL:">> \o message

\* What can be at file_path when the upload looks.
LocalFiles == {"missing", "unreadable", "readable"}

\* Mutant of ReadLocalFile: the file is neither looked for nor read.
ReadLocalFile_Unchecked(file, path) == << >>

\* existsSync, statSync and readFileSync, before any fetch: the message of
\* the error they end in, or << >> when size and content have been read.
ReadLocalFile(file, path) ==
    CASE file = "missing"    -> <<"File does not exist:", path>>
      [] file = "unreadable" -> <<"EACCES: permission denied, open">>
      [] OTHER               -> << >>

\* A valid upload request: the executor is called, checks and reads the
\* local file, and asks for an upload URL.
ReceiveUpload ==
    /\ pc = "idle"
    /\ process = "running"
    /\ \E params \in Requests :
          /\ Validation(params) = << >>
          /\ params.name = "slack_upload_file_to_thread"
          /\ request' = params
          /\ calls' = [calls EXCEPT ![params.name] = @ + 1]
          /\ \E file \in LocalFiles :
                LET thrown == ReadLocalFile(file, params.arguments["file_path"].s)
                IN  /\ localFile' = file
                    /\ IF thrown # << >>
                       THEN /\ Settle(CatchResult(thrown))
                            /\ UNCHANGED net
                       ELSE /\ net' = Append(net, [endpoint |-> "files.getUploadURLExternal"])
                            /\ pc' = "negotiate"
                            /\ UNCHANGED result
    /\ UNCHANGED <<process, folderExists, transfers, fileNames, disk,
                   upload, threadData, atReturn,
                   urlData, uploadResponse, response, attachment, localPath, invocations>>

\* files.getUploadURLExternal answers (step 1), and the bytes are posted to
\* the upload URL (start of step 2).
NegotiateRespond ==
    /\ pc = "negotiate"
    /\ process = "running"
    /\ \/ /\ \E f \in FetchFailures :
                Settle(CatchResult(UploadUrlError(
                    IF f.kind = "unparsable"
                    THEN <<"Failed to parse response as JSON:", "<html>">>
                    ELSE f.message)))
          /\ UNCHANGED <<net, upload, urlData>>
       \/ \E data \in NegotiateBodies :
             /\ urlData' = data
             /\ IF ~data.ok
                THEN /\ Settle(CatchResult(UploadUrlError(SlackApiError(data))))
                     /\ UNCHANGED <<net, upload>>
                ELSE /\ upload' = [upload_url |-> data.upload_url,
                                   file_id |-> data.file_id]
                     /\ net' = Append(net, [endpoint |-> data.upload_url])
                     /\ pc' = "transfer"
                     /\ UNCHANGED result
    /\ UNCHANGED <<request, calls, process, folderExists, localFile, transfers,
                   fileNames, disk, threadData, atReturn,
                   uploadResponse, response, attachment, localPath, invocations>>

\* What the POST of the bytes to the upload URL can come to.
UploadResponses ==
    {[ok |-> TRUE, statusText |-> "OK"],
     [ok |-> FALSE, statusText |-> "Internal Server Error"]}

\* Mutant of UploadFailed: the status of the POST is not looked at.
UploadFailed_Never(r) == FALSE

\* if (!uploadResponse.ok)
UploadFailed(r) == ~r.ok

\* The upload URL answers (step 2), and files.completeUploadExternal is
\* called (start of step 3).
TransferRespond ==
    /\ pc = "transfer"
    /\ process = "running"
    /\ \/ /\ Settle(CatchResult(UploadUrlError(<<"fetch failed">>)))
          /\ UNCHANGED <<net, uploadResponse>>
       \/ \E r \in UploadResponses :
             /\ uploadResponse' = r
             /\ IF UploadFailed(r)
                THEN /\ Settle(CatchResult(UploadUrlError(
                            <<"Failed to upload file:", r.statusText>>)))
                     /\ UNCHANGED net
                ELSE /\ net' = Append(net, [endpoint |-> "files.completeUploadExternal",
                                            file_id |-> upload.file_id])
                     /\ pc' = "finalize"
                     /\ UNCHANGED result
    /\ UNCHANGED <<request, calls, process, folderExists, localFile, transfers,
                   fileNames, disk, upload, threadData, atReturn,
                   urlData, response, attachment, localPath, invocations>>

\* files.completeUploadExternal answers (step 3): its body is returned as it is.
FinalizeRespond ==
    /\ pc = "finalize"
    /\ process = "running"
    /\ \/ \E body \in GatewayBodies :
             /\ response' = body
             /\ Settle(PassThrough(body))
       \/ /\ \E f \in FetchFailures : Settle(CatchResult(f.message))
          /\ UNCHANGED response
    /\ UNCHANGED <<request, calls, net, process, folderExists, localFile,
                   transfers, fileNames, disk, upload, threadData, atReturn,
                   urlData, uploadResponse, attachment, localPath, invocations>>

----------------------------------------------------------------------------
(* Several calls of the handler in flight together: uploads and downloads of
   one attachment, interleaved at their awaits. *)

\* The number of calls in flight together.
MaxInvocations == 2

Ids == 1..MaxInvocations

\* The variables of the single call, which these calls leave alone.
handlerVars ==
    <<pc, request, result, calls, net, folderExists, localFile, transfers,
      fileNames, upload, threadData, atReturn, urlData, uploadResponse,
      response, attachment, localPath>>

\* The threads of one message with one attachment, and the refused fetch.
OneFileThreads ==
    {b \in ThreadBodies :
        \/ ~b.ok
        \/ /\ "messages" \in DOMAIN b
           /\ Len(b.messages) = 1
           /\ Len(EnumerateFiles(b.messages)) = 1}

\* The file already on the local disk, and the paths an upload is asked for:
\* that file, and a path a download into folder v writes.
InitialDisk == (<<"u", <<"f">> >> :> "complete")

UploadPaths == {<<"u", <<"f">> >>, <<"v", <<"a">> >>}

\* Two upload sessions, and a refusal.
SessionBodies ==
    {[ok |-> TRUE, upload_url |-> "https://files.slack.com/upload/v1/abc", file_id |-> "F1"],
     [ok |-> TRUE, upload_url |-> "https://files.slack.com/upload/v1/def", file_id |-> "F2"],
     [ok |-> FALSE, error |-> "invalid_auth"]}

\* A call that has not been received.
Fresh ==
    [kind |-> "none", pc |-> "idle", file_path |-> << >>, found |-> "unread",
     upload_url |-> "", file_id |-> "", fileName |-> << >>, transfer |-> "none",
     unlink |-> "none", fileNames |-> << >>, sent |-> << >>, heard |-> << >>,
     result |-> NoResult]

\* Mutant of Locals: upload_url, file_id and fileNames are kept in one place
\* for all calls.
Locals_Shared(k) == invocations[1]

\* const { upload_url, file_id } = urlData and const fileNames = []: each
\* call of the method has its own.
Locals(k) == invocations[k]

\* What existsSync and readFileSync find at a path.
FoundAt(d, path) == IF path \in DOMAIN d THEN "readable" ELSE "missing"

ConcurrentInit ==
    /\ pc = "idle"
    /\ request = Undefined
    /\ result = NoResult
    /\ calls = [n \in ToolNames |-> 0]
    /\ net = << >>
    /\ process = "running"
    /\ folderExists = TRUE
    /\ localFile = "unread"
    /\ transfers = << >>
    /\ fileNames = << >>
    /\ disk = InitialDisk
    /\ upload = [upload_url |-> "", file_id |-> ""]
    /\ threadData = Undefined
    /\ atReturn = << >>
    /\ urlData = Undefined
    /\ uploadResponse = Undefined
    /\ response = Undefined
    /\ attachment = Undefined
    /\ localPath = << >>
    /\ invocations = [k \in Ids |-> Fresh]

\* case "slack_upload_file_to_thread" for call k: the file is looked for and
\* read, and files.getUploadURLExternal is asked.
CallUpload(k) ==
    /\ process = "running"
    /\ invocations[k].pc = "idle"
    /\ \E path \in UploadPaths :
          LET file == FoundAt(disk, path)
              thrown == ReadLocalFile(file, path)
              called == [invocations[k] EXCEPT !.kind = "upload",
                                               !.file_path = path,
                                               !.found = file]
          IN  invocations' = [invocations EXCEPT ![k] =
                  IF thrown # << >>
                  THEN [called EXCEPT !.pc = "returned",
                                      !.result = CatchResult(thrown).result]
                  ELSE [called EXCEPT
                           !.pc = "negotiate",
                           !.sent = Append(@, [endpoint |-> "files.getUploadURLExternal"])]]
    /\ UNCHANGED <<handlerVars, disk, process>>

\* Step 1 of call k is answered.
NegotiateAnswer(k) ==
    /\ process = "running"
    /\ invocations[k].pc = "negotiate"
    /\ \E data \in SessionBodies :
          LET heard == [invocations[k] EXCEPT !.heard = Append(@, data)]
          IN  invocations' = [invocations EXCEPT ![k] =
                  IF ~data.ok
                  THEN [heard EXCEPT
                           !.pc = "returned",
                           !.result = CatchResult(UploadUrlError(SlackApiError(data))).result]
                  ELSE [heard EXCEPT !.upload_url = data.upload_url,
                                     !.file_id = data.file_id,
                                     !.pc = "transfer",
                                     !.sent = Append(@, [endpoint |-> data.upload_url])]]
    /\ UNCHANGED <<handlerVars, disk, process>>

\* Step 2 of call k is answered; step 3 sends the file_id of the call.
TransferAnswer(k) ==
    /\ process = "running"
    /\ invocations[k].pc = "transfer"
    /\ \E r \in UploadResponses :
          LET heard == [invocations[k] EXCEPT !.heard = Append(@, r)]
          IN  invocations' = [invocations EXCEPT ![k] =
                  IF UploadFailed(r)
                  THEN [heard EXCEPT
                           !.pc = "returned",
                           !.result = CatchResult(UploadUrlError(
                               <<"Failed to upload file:", r.statusText>>)).result]
                  ELSE [heard EXCEPT
                           !.pc = "finalize",
                           !.sent = Append(@, [endpoint |-> "files.completeUploadExternal",
                                               file_id |-> Locals(k).file_id])]]
    /\ UNCHANGED <<handlerVars, disk, process>>

\* Step 3 of call k is answered.
FinalizeAnswer(k) ==
    /\ process = "running"
    /\ invocations[k].pc = "finalize"
    /\ \E body \in GatewayBodies :
          invocations' = [invocations EXCEPT
              ![k].heard = Append(@, body),
              ![k].pc = "returned",
              ![k].result = PassThrough(body).result]
    /\ UNCHANGED <<handlerVars, disk, process>>

\* case "slack_download_thread_files" for call k, into folder v.
CallDownload(k) ==
    /\ process = "running"
    /\ invocations[k].pc = "idle"
    /\ invocations' = [invocations EXCEPT
          ![k].kind = "download",
          ![k].pc = "thread",
          ![k].sent = Append(@, [endpoint |-> "conversations.replies"])]
    /\ UNCHANGED <<handlerVars, disk, process>>

\* The thread fetch of call k is answered.
ThreadAnswer(k) ==
    /\ process = "running"
    /\ invocations[k].pc = "thread"
    /\ \E body \in OneFileThreads :
          LET heard == [invocations[k] EXCEPT !.heard = Append(@, body)]
          IN  invocations' = [invocations EXCEPT ![k] =
                  IF ~body.ok
                  THEN [heard EXCEPT
                           !.pc = "returned",
                           !.result = CatchResult(ThreadDataError(body)).result]
                  ELSE LET files == EnumerateFiles(body.messages)
                       IN  [heard EXCEPT
                              !.pc = "files",
                              !.fileName = StartTransfers("v", files)[1].fileName,
                              !.transfer = "requested",
                              !.sent = @ \o FileRequests(files)]]
    /\ UNCHANGED <<handlerVars, disk, process>>

\* The response callback of the https.get of call k.
FileAnswer(k) ==
    /\ process = "running"
    /\ invocations[k].transfer = "requested"
    /\ \E statusCode \in StatusCodes :
          LET heard == [invocations[k] EXCEPT
                           !.heard = Append(@, [statusCode |-> statusCode])]
          IN  IF statusCode # 200
              THEN /\ invocations' = [invocations EXCEPT ![k] =
                          [heard EXCEPT
                              !.transfer = "failed",
                              !.pc = "returned",
                              !.result = CatchResult(
                                  <<"Failed to download file:", statusCode>>).result]]
                   /\ UNCHANGED disk
              ELSE /\ invocations' = [invocations EXCEPT ![k] =
                          [heard EXCEPT !.transfer = "streaming"]]
                   /\ disk' = OpenForWrite(disk, invocations[k].fileName)
    /\ UNCHANGED <<handlerVars, process>>

\* fileRequest.on('error') of call k: the unlink is started, the promise
\* rejected and the handler returns.
FileError(k) ==
    /\ process = "running"
    /\ invocations[k].transfer \in {"requested", "streaming"}
    /\ invocations' = [invocations EXCEPT
          ![k].heard = Append(@, [error |-> "socket hang up"]),
          ![k].transfer = "failed",
          ![k].unlink = "pending",
          ![k].pc = "returned",
          ![k].result = CatchResult(<<"socket hang up">>).result]
    /\ UNCHANGED <<handlerVars, disk, process>>

\* The unlink started by call k completes, or fails and is ignored.
UnlinkDone(k) ==
    /\ process = "running"
    /\ invocations[k].unlink = "pending"
    /\ \/ /\ invocations[k].fileName \in DOMAIN disk
          /\ disk' = Unlink(disk, invocations[k].fileName)
          /\ invocations' = [invocations EXCEPT ![k].unlink = "done"]
       \/ /\ invocations' = [invocations EXCEPT ![k].unlink = "failed"]
          /\ UNCHANGED disk
    /\ UNCHANGED <<handlerVars, process>>

\* fileStream.on('finish') of call k: the path is pushed to the fileNames of
\* the call, and the handler returns the list.
FileEnd(k) ==
    /\ process = "running"
    /\ invocations[k].transfer = "streaming"
    /\ LET names == Append(Locals(k).fileNames, invocations[k].fileName)
       IN  invocations' = [invocations EXCEPT
              ![k].heard = Append(@, [end |-> TRUE]),
              ![k].transfer = "done",
              ![k].fileNames = names,
              ![k].pc = "returned",
              ![k].result = SuccessResult(JSONstringifyArray(names)).result]
    /\ disk' = [p \in DOMAIN disk |->
                   IF p = invocations[k].fileName THEN "complete" ELSE disk[p]]
    /\ UNCHANGED <<handlerVars, process>>

\* The response of call k ends early: its promise never settles.
FileAborted(k) ==
    /\ process = "running"
    /\ invocations[k].transfer = "streaming"
    /\ invocations' = [invocations EXCEPT ![k].transfer = "stalled"]
    /\ UNCHANGED <<handlerVars, disk, process>>

\* The write stream of call k emits 'error': the process, and every call in
\* it, ends.
StreamError(k) ==
    /\ process = "running"
    /\ invocations[k].transfer = "streaming"
    /\ process' = "crashed"
    /\ UNCHANGED <<handlerVars, disk, invocations>>

ConcurrentNext ==
    \/ \E k \in Ids : CallUpload(k)
    \/ \E k \in Ids : NegotiateAnswer(k)
    \/ \E k \in Ids : TransferAnswer(k)
    \/ \E k \in Ids : FinalizeAnswer(k)
    \/ \E k \in Ids : CallDownload(k)
    \/ \E k \in Ids : ThreadAnswer(k)
    \/ \E k \in Ids : FileAnswer(k)
    \/ \E k \in Ids : FileError(k)
    \/ \E k \in Ids : UnlinkDone(k)
    \/ \E k \in Ids : FileEnd(k)
    \/ \E k \in Ids : FileAborted(k)
    \/ \E k \in Ids : StreamError(k)

----------------------------------------------------------------------------
(* The specification. *)

Next ==
    \/ ReceiveInvalid
    \/ ReceiveGateway
    \/ GatewayRespond
    \/ ReceiveDownload
    \/ ThreadFetchFails
    \/ ThreadRespond
    \/ \E i \in 1..MaxFiles : FileResponse(i)
    \/ \E i \in 1..MaxFiles : FileRequestError(i)
    \/ \E i \in 1..MaxFiles : UnlinkComplete(i)
    \/ \E i \in 1..MaxFiles : FileFinish(i)
    \/ \E i \in 1..MaxFiles : FileResponseAborted(i)
    \/ \E i \in 1..MaxFiles : FileWriteError(i)
    \/ ReceiveUpload
    \/ NegotiateRespond
    \/ TransferRespond
    \/ FinalizeRespond

Spec == Init /\ [][Next]_vars

\* One attachment name at a time, through the naming and the creation of
\* its local file.
SanitizeSpec == Init /\ [][SanitizeNext]_vars

\* Every operation that has been started completes: a request is answered
\* or fails, a stream finishes or fails, an unlink completes.
LiveSpec == Spec /\ WF_vars(Next)

\* Calls of the handler in flight together.
ConcurrentSpec == ConcurrentInit /\ [][ConcurrentNext]_vars

----------------------------------------------------------------------------
(* Reading the handler's result. *)

Returned == pc = "returned"

\* The text of the first content item.
ResultText == result.content[1].text

\* The text is the serialization of {error: message}.
IsErrorText(t) ==
    Len(t) = 5 /\ t[1] = "{" /\ t[2] = "error" /\ t[3] = ":" /\ t[5] = "}"

\* The text is the serialization of an executor's return value: a Slack
\* envelope (its first key is ok) or the array of downloaded paths.
IsPayloadText(t) ==
    \/ t[1] = "[" /\ t[Len(t)] = "]"
    \/ t[1] = "{" /\ t[2] = "ok" /\ t[Len(t)] = "}"

\* The result is a Failure, and its message.
IsFailure == Returned /\ IsErrorText(ResultText)

IsSuccess == Returned /\ IsPayloadText(ResultText)

FailureMessage == ResultText[4]

\* The array a successful download returned.
ReturnedList == SubSeq(ResultText, 2, Len(ResultText) - 1)

ArgumentsPresent == request # Undefined /\ request.arguments # Undefined

IsDownload == request # Undefined /\ request.name = "slack_download_thread_files"

\* The required fields of the request's tool that the arguments leave out
\* (absent, or empty).
Omitted ==
    {f \in Range(Required(request.name)) : Falsy(Get(request.arguments, f))}

AllFields == UNION {Properties(n) : n \in ToolNames}

\* The argument names a message mentions.
NamedFields(message) == Range(message) \cap AllFields

NoExecutorCalled == \A n \in ToolNames : calls[n] = 0

----------------------------------------------------------------------------
(* The claims. *)

\* C1: invoke never throws. Whatever the request and whatever the remote
\* answers or fails with while the executor runs, the handler is never left
\* by an exception: it is idle, awaiting a remote call, or has returned, and
\* what it returned is an InvocationResult (a content list of text items).
C1_InvokeNeverThrows ==
    /\ pc # "thrown"
    /\ pc \in {"idle", "gateway", "thread", "files", "negotiate", "transfer",
               "finalize", "returned"}
    /\ Returned <=> result # NoResult
    /\ Returned => /\ DOMAIN result = {"content"}
                   /\ \A k \in 1..Len(result.content) :
                         result.content[k].type = "text"

\* C1 witness: the handler returned a Failure for an error raised by the
\* remote call of an executor that was running.
C1_Witness ==
    /\ IsFailure
    /\ net # << >>
    /\ FailureMessage = <<"fetch failed">>

\* C2: every InvocationResult has exactly one content item, of type text,
\* whose text is either the serialized payload of the executor or the
\* serialized {error: message}, never both and never neither.
C2_OneItemPayloadOrError ==
    Returned =>
        /\ Len(result.content) = 1
        /\ result.content[1].type = "text"
        /\ IsErrorText(ResultText) # IsPayloadText(ResultText)

\* C2 witness: a download that returned the list of its two paths.
C2_Witness ==
    /\ IsDownload
    /\ IsSuccess
    /\ Len(ReturnedList) = 2

\* C3 as stated: every request naming a tool that is not in the registry
\* is answered with the Failure "Unknown tool: <name>".
C3_Original ==
    (Returned /\ request.name \notin ToolNames) =>
        (IsFailure /\ FailureMessage = <<"Unknown tool:", request.name>>)

\* C3 amended: every request WITH ARGUMENTS naming a tool that is not in
\* the registry is answered with the Failure "Unknown tool: <name>", and no
\* executor is called; without arguments the answer is "No arguments
\* provided" whatever the name.
C3_UnknownToolWithArguments ==
    (pc # "idle" /\ request.name \notin ToolNames) =>
        /\ IsFailure
        /\ NoExecutorCalled /\ net = << >>
        /\ ArgumentsPresent => FailureMessage = <<"Unknown tool:", request.name>>
        /\ ~ArgumentsPresent => FailureMessage = <<"No arguments provided">>

\* C3 witness: an unknown tool called with an arguments object.
C3_Witness ==
    /\ Returned
    /\ request.name = "slack_delete_message"
    /\ ArgumentsPresent
    /\ "channel_id" \in DOMAIN request.arguments

\* C4: a request whose arguments are undefined is answered with the Failure
\* "No arguments provided", whatever the tool name, and no executor and no
\* remote call is made.
C4_NoArguments ==
    (pc # "idle" /\ request.arguments = Undefined) =>
        /\ IsFailure
        /\ FailureMessage = <<"No arguments provided">>
        /\ net = << >>
        /\ NoExecutorCalled

\* C4 witness: a tool without required fields called without arguments.
C4_Witness ==
    /\ Returned
    /\ request.name = "slack_list_channels"
    /\ request.arguments = Undefined

C6_ExecutorOnceIffRequired ==
    /\ pc = "idle" => \A n \in ToolNames : Checked(n) = Range(Required(n))
    /\ (pc # "idle" /\ ArgumentsPresent) =>
          /\ \A n \in ToolNames :
                calls[n] = IF n = request.name /\ Omitted = {} THEN 1 ELSE 0
          /\ (request.name \in ToolNames /\ Omitted # {}) => net = << >>

\* C6 witness: slack_get_user_profile ran once and returned.
C6_Witness ==
    /\ Returned
    /\ request.name = "slack_get_user_profile"
    /\ calls["slack_get_user_profile"] = 1
    /\ Len(net) = 1

TransferIndexes == 1..Len(transfers)

\* The number of attachments of a thread, counted message by message.
TotalFiles(messages) ==
    LET Count[i \in 0..Len(messages)] ==
            IF i = 0 THEN 0
            ELSE Count[i - 1]
                    + (IF "files" \in DOMAIN messages[i] THEN Len(messages[i].files) ELSE 0)
    IN  Count[Len(messages)]

\* The url_private of every attachment of a thread.
RemoteFiles(messages) ==
    UNION {IF "files" \in DOMAIN messages[i]
           THEN {messages[i].files[j].url_private : j \in 1..Len(messages[i].files)}
           ELSE {} : i \in 1..Len(messages)}

Rearrangements(n) ==
    {f \in [1..n -> 1..n] : \A a, b \in 1..n : f[a] = f[b] => a = b}

\* The thread was fetched and had a message list.
ThreadFetched ==
    /\ threadData # Undefined
    /\ threadData.ok
    /\ "messages" \in DOMAIN threadData

\* C7 as stated: when the output directory does not exist the download
\* makes no network call at all: the existence check comes before the
\* thread fetch and before any file download.
C7_NoNetworkWithoutFolder ==
    (IsDownload /\ ~folderExists) => net = << >>

\* C8 as stated: the list a successful download returns is in the thread's
\* message and attachment order, whatever the order in which the transfers
\* complete.
C8_EnumerationOrder ==
    (IsDownload /\ IsSuccess) =>
        ReturnedList = [i \in TransferIndexes |-> transfers[i].fileName]

\* C9: with the output directory in place and a fetched thread of M
\* attachments, a download in which every transfer succeeded returns a list
\* of exactly M local paths, one for each remote file (the list is a
\* rearrangement of the paths of the M transfers, and the M transfers fetch
\* the M remote files); a message without files adds nothing.
C9_OnePathPerFile ==
    (IsDownload /\ ThreadFetched /\ folderExists /\ pc \in {"files", "returned"}) =>
        /\ Len(transfers) = TotalFiles(threadData.messages)
        /\ {transfers[i].url : i \in TransferIndexes} = RemoteFiles(threadData.messages)
        /\ Cardinality(RemoteFiles(threadData.messages)) = Len(transfers)
        /\ (\A i \in TransferIndexes : transfers[i].state = "done") =>
              /\ IsSuccess
              /\ Len(ReturnedList) = TotalFiles(threadData.messages)
              /\ \E p \in Rearrangements(Len(transfers)) :
                    \A k \in TransferIndexes :
                        ReturnedList[k] = transfers[p[k]].fileName

\* C9 witness: a thread of a message without files and a message with two,
\* downloaded in full.
C9_Witness ==
    /\ IsDownload
    /\ IsSuccess
    /\ ThreadFetched
    /\ Len(threadData.messages) = 2
    /\ "files" \notin DOMAIN threadData.messages[1]
    /\ Len(ReturnedList) = 2

\* C10: the outcome of a download is the conjunction of the outcomes of its
\* transfers. While none has failed and some is unfinished the handler
\* waits; it returns Success only when every transfer has succeeded; as soon
\* as one fails it returns a Failure carrying that transfer's error and no
\* path list, even when other files are finished. The transfers in flight
\* at that moment are not cancelled.
C10_OutcomeIsConjunction ==
    (IsDownload /\ transfers # << >>) =>
        /\ pc = "files" =>
              /\ \A i \in TransferIndexes : transfers[i].state # "failed"
              /\ \E i \in TransferIndexes : transfers[i].state # "done"
        /\ Returned =>
              /\ IsSuccess <=> \A i \in TransferIndexes : atReturn[i].state = "done"
              /\ IsFailure <=> \E i \in TransferIndexes : atReturn[i].state = "failed"
              /\ IsFailure =>
                    \E i \in TransferIndexes :
                        /\ atReturn[i].state = "failed"
                        /\ FailureMessage = atReturn[i].error
              /\ \A i \in TransferIndexes :
                    atReturn[i].state \in {"done", "failed"} =>
                        transfers[i].state = atReturn[i].state

\* C10 witness: a Failure was returned while a sibling transfer was still
\* in flight, and that sibling went on, finished and left its file on disk.
C10_Witness ==
    /\ IsDownload
    /\ IsFailure
    /\ \E i \in TransferIndexes :
          /\ atReturn[i].state = "pending"
          /\ transfers[i].state = "done"
          /\ transfers[i].fileName \in DOMAIN disk
          /\ disk[transfers[i].fileName] = "complete"

----------------------------------------------------------------------------
(* Upload: the three phases. *)

\* The upload executor was called for the request.
IsUpload ==
    /\ request # Undefined
    /\ request.name = "slack_upload_file_to_thread"
    /\ calls["slack_upload_file_to_thread"] = 1

\* The upload URLs the remote hands out.
UploadUrls == {b.upload_url : b \in {d \in NegotiateBodies : d.ok}}

\* The number of requests issued to one of the endpoints.
Issued(endpoints) ==
    Cardinality({i \in 1..Len(net) : net[i].endpoint \in endpoints})

NegotiateCalls == Issued({"files.getUploadURLExternal"})

TransferCalls == Issued(UploadUrls)

FinalizeCalls == Issued({"files.completeUploadExternal"})

NegotiateRefused == urlData # Undefined /\ ~urlData.ok

TransferRefused == uploadResponse # Undefined /\ ~uploadResponse.ok

\* C11: when files.getUploadURLExternal answers ok:false, no request goes to
\* an upload URL or to files.completeUploadExternal, and the result is a
\* Failure whose message holds the remote error, and the detail when the
\* answer has one.
C11_NegotiateRefusedStopsUpload ==
    (IsUpload /\ NegotiateRefused) =>
        /\ NegotiateCalls = 1
        /\ TransferCalls = 0
        /\ FinalizeCalls = 0
        /\ Len(net) = 1
        /\ IsFailure
        /\ "error" \in DOMAIN urlData => urlData.error \in Range(FailureMessage)
        /\ "detail" \in DOMAIN urlData => urlData.detail \in Range(FailureMessage)

\* C11 witness: the negotiation was refused with an error and a detail, and
\* the Failure has been returned.
C11_Witness ==
    /\ IsUpload
    /\ NegotiateRefused
    /\ "detail" \in DOMAIN urlData
    /\ IsFailure
    /\ FailureMessage = <<"Failed to get upload URL:", "Slack API error:",
                          "invalid_arguments", "-", "length is required">>

\* The phase the i-th request of an upload belongs to.
PhaseOf(req) ==
    CASE req.endpoint = "files.getUploadURLExternal" -> 1
      [] req.endpoint \in UploadUrls -> 2
      [] req.endpoint = "files.completeUploadExternal" -> 3
      [] OTHER -> 0

\* C12: within one upload each of Negotiate, Transfer and Finalize is issued
\* at most once and in that order; Transfer only after Negotiate answered
\* ok:true, Finalize only after Transfer succeeded; after a failed Transfer
\* there is no second Negotiate and no Finalize.
C12_PhasesOnceInOrder ==
    IsUpload =>
        /\ NegotiateCalls <= 1 /\ TransferCalls <= 1 /\ FinalizeCalls <= 1
        /\ \A i \in 1..Len(net) : PhaseOf(net[i]) = i
        /\ TransferCalls = 1 => (urlData # Undefined /\ urlData.ok)
        /\ FinalizeCalls = 1 => (uploadResponse # Undefined /\ uploadResponse.ok)
        /\ TransferRefused => (NegotiateCalls = 1 /\ FinalizeCalls = 0 /\ IsFailure)
        /\ (Returned /\ Len(net) = 2) => IsFailure

\* C12 witness: an upload went through its three phases, one request each.
C12_Witness ==
    /\ IsUpload
    /\ Len(net) = 3
    /\ IsSuccess

\* C13: when the local file does not exist or cannot be read, the upload
\* fails before any remote call; a remote call is only ever issued once
\* the size and the content of the file have been read.
C13_LocalFileReadFirst ==
    IsUpload =>
        /\ localFile # "readable" => (IsFailure /\ net = << >>)
        /\ net # << >> => localFile = "readable"

\* C13 witness: an upload of a missing file has failed without any request.
C13_Witness ==
    /\ IsUpload
    /\ localFile = "missing"
    /\ IsFailure
    /\ FailureMessage = <<"File does not exist:", "v">>
    /\ net = << >>

\* C14: the body a gateway tool or files.completeUploadExternal answers with
\* is the Success payload as it is, ok:false, error and all, and is never
\* made a Failure; an ok:false answer of the thread fetch of download or of
\* files.getUploadURLExternal is a Failure.
C14_PassThroughKeepsEnvelope ==
    /\ response # Undefined =>
          /\ IsSuccess
          /\ ~IsFailure
          /\ ResultText =
                IF response.ok
                THEN <<"{", "ok", ":", TRUE, "}">>
                ELSE <<"{", "ok", ":", FALSE, "error", ":", response.error, "}">>
    /\ (threadData # Undefined /\ ~threadData.ok) => IsFailure
    /\ NegotiateRefused => IsFailure

\* C14 witness: files.completeUploadExternal answered ok:false and the
\* upload returned that body as its payload.
C14_Witness ==
    /\ IsUpload
    /\ response # Undefined
    /\ ~response.ok
    /\ IsSuccess
    /\ ResultText = <<"{", "ok", ":", FALSE, "error", ":", "channel_not_found", "}">>

\* C14 witness, gateway side: a gateway tool returned an ok:false body.
C14_GatewayWitness ==
    /\ request # Undefined
    /\ request.name \in GatewayTools
    /\ response # Undefined
    /\ ~response.ok
    /\ IsSuccess

\* The request is a valid call of list channels or list users.
IsListing ==
    /\ request # Undefined
    /\ request.name \in {"slack_list_channels", "slack_get_users"}
    /\ net # << >>

\* C15: for list channels and list users the transmitted limit is
\* min(limit, 200) for every supplied limit, and 100 when none is supplied.
C15_LimitClamped ==
    IsListing =>
        net[1].limit =
            IF "limit" \in DOMAIN request.arguments
            THEN IF request.arguments["limit"].n <= 200
                 THEN request.arguments["limit"].n
                 ELSE 200
            ELSE 100

\* C15 witness: a limit above the cap was supplied and the cap was sent.
C15_Witness ==
    /\ IsListing
    /\ "limit" \in DOMAIN request.arguments
    /\ request.arguments["limit"].n = 201
    /\ net[1].limit = 200

----------------------------------------------------------------------------
(* Failures and the process. *)

\* C16: once the server is serving, no failure during an invocation ends the
\* process: whatever fails, the process is still running.
C16_NoFailureTerminates == process = "running"

----------------------------------------------------------------------------
(* The safe filename. *)

\* C17: the local file name of a downloaded attachment is its suggested name
\* with each of / \ ? % * : | " < > replaced by exactly one underscore and
\* every other character unchanged (a/b\c?d gives a_b_c_d), and the file is
\* created inside the output folder.
C17_SafeFileName ==
    attachment # Undefined =>
        /\ Len(localPath) = 2 =>
              /\ localPath[1] = attachment.output_folder
              /\ Len(localPath[2]) = Len(attachment.name)
              /\ \A i \in 1..Len(attachment.name) :
                    localPath[2][i] =
                        IF attachment.name[i] \in
                               {"/", "\\", "?", "%", "*", ":", "|", "\"", "<", ">"}
                        THEN "_"
                        ELSE attachment.name[i]
        /\ attachment.name = <<"a", "/", "b", "\\", "c", "?", "d">> =>
              localPath = <<attachment.output_folder,
                            <<"a", "_", "b", "_", "c", "_", "d">> >>
        /\ \A p \in DOMAIN disk :
              /\ p = localPath
              /\ Len(p) = 2
              /\ p[1] = attachment.output_folder

\* C17 witness: the file of the attachment named a/b\c?d was created as
\* a_b_c_d in the output folder.
C17_Witness ==
    /\ attachment # Undefined
    /\ attachment.name = <<"a", "/", "b", "\\", "c", "?", "d">>
    /\ localPath = <<"v", <<"a", "_", "b", "_", "c", "_", "d">> >>
    /\ localPath \in DOMAIN disk

----------------------------------------------------------------------------
(* Download: failures. *)

ThreadRefused == threadData # Undefined /\ ~threadData.ok

\* C18: when the thread-replies fetch of a download answers ok:false, the
\* operation fails with the error string the remote supplied, the fetch is
\* not issued again, no file download is started and no local file is
\* created.
C18_ThreadRefusedStopsDownload ==
    (IsDownload /\ ThreadRefused) =>
        /\ IsFailure
        /\ Len(FailureMessage) = 2
        /\ FailureMessage[2] = threadData.error
        /\ net = <<[endpoint |-> "conversations.replies"]>>
        /\ transfers = << >>
        /\ DOMAIN disk = {}

\* C18 witness: the thread fetch was refused although the output folder
\* exists, and the Failure has been returned.
C18_Witness ==
    /\ IsDownload
    /\ ThreadRefused
    /\ folderExists
    /\ IsFailure
    /\ FailureMessage = <<"Failed to get thread data:", "thread_not_found">>

----------------------------------------------------------------------------
(* Upload: the phase a failure is attributed to. *)

\* The phase whose request was the last one issued: 1 Negotiate, 2 Transfer,
\* 3 Finalize.
FailedPhase == Len(net)

\* The phases a message names: "Failed to get upload URL:" is the text for
\* Negotiate, "Failed to upload file:" the text for Transfer; the code has
\* no text for Finalize.
PhasesNamed(message) ==
    (IF "Failed to get upload URL:" \in Range(message) THEN {1} ELSE {})
        \cup (IF "Failed to upload file:" \in Range(message) THEN {2} ELSE {})

\* C20: a failed upload surfaces as a single error whose message is
\* attributed to the phase that failed, Negotiate, Transfer or Finalize, and
\* to no other.
C20_MessageNamesFailedPhase ==
    (IsUpload /\ IsFailure /\ net # << >>) =>
        PhasesNamed(FailureMessage) = {FailedPhase}

----------------------------------------------------------------------------
(* Download: what a failed transfer leaves behind. *)

\* Transfer i was rejected for its status, or by the 'error' of its request.
FailedByStatus(i) == transfers[i].state = "failed" /\ Len(transfers[i].error) = 2

FailedByRequestError(i) == transfers[i].state = "failed" /\ Len(transfers[i].error) = 1

\* The file transfer i created is in the output folder, still partial.
PartialFileRemains(i) ==
    /\ transfers[i].opened
    /\ transfers[i].fileName \in DOMAIN disk
    /\ disk[transfers[i].fileName] = "partial"

\* Transfer i is the one whose rejection the handler returned.
FailedTheOperation(i) ==
    /\ i \in 1..Len(atReturn)
    /\ atReturn[i].state = "failed"

\* No other transfer writes to the path of transfer i.
PathUnshared(i) ==
    \A j \in TransferIndexes \ {i} : transfers[j].fileName # transfers[i].fileName

\* C19 as stated: once a transfer has failed, for its status or by a request
\* error before or during streaming, no partially written file of it remains
\* in the output folder, and the operation's Failure carries its error.
C19_Original ==
    IsDownload =>
        \A i \in TransferIndexes :
            transfers[i].state = "failed" =>
                /\ ~PartialFileRemains(i)
                /\ FailedTheOperation(i) =>
                      (IsFailure /\ FailureMessage = transfers[i].error)

\* C19, amended: a transfer rejected for its status never created a file; a
\* transfer rejected by a request error has started the unlink of its path
\* before it was rejected, and once that unlink has succeeded no file of it
\* remains (the unlink is not awaited and its failure is ignored, so until
\* then, or if it fails, the partial file is still there); the operation's
\* Failure carries the error of the transfer that failed it.
C19_DiscardIsBestEffort ==
    IsDownload =>
        \A i \in TransferIndexes :
            /\ FailedByStatus(i) =>
                  (~transfers[i].opened /\ transfers[i].unlink = "none")
            /\ FailedByRequestError(i) => transfers[i].unlink # "none"
            /\ (FailedByRequestError(i) /\ transfers[i].unlink = "done" /\ PathUnshared(i))
                  => transfers[i].fileName \notin DOMAIN disk
            /\ transfers[i].unlink # "none" => FailedByRequestError(i)
            /\ (transfers[i].state = "failed" /\ FailedTheOperation(i)) =>
                  (IsFailure /\ FailureMessage = transfers[i].error)

\* C19 witness: a transfer failed by a request error while streaming, its
\* unlink has succeeded, its file is gone and the Failure carries its error.
C19_Witness ==
    /\ IsDownload
    /\ \E i \in TransferIndexes :
          /\ FailedByRequestError(i)
          /\ transfers[i].opened
          /\ transfers[i].unlink = "done"
          /\ transfers[i].fileName \notin DOMAIN disk
          /\ FailedTheOperation(i)
          /\ IsFailure
          /\ FailureMessage = <<"socket hang up">>

----------------------------------------------------------------------------
(* Interleaved calls. *)

\* The result of an upload handled alone: a function of what it found at
\* file_path and of the answers of the remote, in order.
UploadAlone(found, path, heard) ==
    LET thrown == ReadLocalFile(found, path)
    IN  IF thrown # << >> THEN CatchResult(thrown).result
        ELSE IF Len(heard) >= 1 /\ ~heard[1].ok
        THEN CatchResult(UploadUrlError(SlackApiError(heard[1]))).result
        ELSE IF Len(heard) >= 2 /\ ~heard[2].ok
        THEN CatchResult(UploadUrlError(
                 <<"Failed to upload file:", heard[2].statusText>>)).result
        ELSE IF Len(heard) >= 3
        THEN SuccessResult(JSONstringify(KeysOf(heard[3]), heard[3])).result
        ELSE NoResult

\* The result of a download of one attachment handled alone: a function of
\* the answers of the remote, in order.
DownloadAlone(heard) ==
    IF Len(heard) >= 1 /\ ~heard[1].ok
    THEN CatchResult(<<"Failed to get thread data:", heard[1].error>>).result
    ELSE IF \E i \in 2..Len(heard) : "error" \in DOMAIN heard[i]
    THEN CatchResult(<<"socket hang up">>).result
    ELSE IF Len(heard) >= 2 /\ heard[2].statusCode # 200
    THEN CatchResult(<<"Failed to download file:", heard[2].statusCode>>).result
    ELSE IF Len(heard) >= 3 /\ "end" \in DOMAIN heard[3]
    THEN SuccessResult(<<"[", <<"v", Sanitize(heard[1].messages[1].files[1].name)>>, "]">>).result
    ELSE NoResult

AloneResult(k, found) ==
    IF invocations[k].kind = "upload"
    THEN UploadAlone(found, invocations[k].file_path, invocations[k].heard)
    ELSE DownloadAlone(invocations[k].heard)

HasReturned(k) == invocations # << >> /\ invocations[k].pc = "returned"

\* The Finalize of an upload carries the file id of its own Negotiate, and
\* the list of a download holds the path of its own transfer and no other.
OwnLocals(k) ==
    /\ (invocations[k].kind = "upload" /\ Len(invocations[k].sent) = 3) =>
          invocations[k].sent[3].file_id = invocations[k].heard[1].file_id
    /\ (invocations[k].kind = "download" /\ invocations[k].transfer = "done") =>
          invocations[k].fileNames = <<invocations[k].fileName>>

\* C21 as stated: whatever the interleaving, the result of each call is the
\* result it would produce alone, on the local disk as it was, given the
\* same remote answers; the Finalize of an upload carries the file id of its
\* own Negotiate and the list of a download only its own paths.
C21_Original ==
    invocations # << >> =>
        \A k \in Ids :
            /\ OwnLocals(k)
            /\ HasReturned(k) =>
                  invocations[k].result =
                      AloneResult(k, FoundAt(InitialDisk, invocations[k].file_path))

\* C21, amended: the result of each call is the result it would produce
\* alone given the same remote answers and the same file found at file_path
\* (the local disk is the one state a call writes and another reads: an
\* upload sees the file a download in flight has created or unlinked); the
\* Finalize of an upload carries the file id of its own Negotiate and the
\* list of a download only its own paths.
C21_IndependentButForDisk ==
    invocations # << >> =>
        \A k \in Ids :
            /\ OwnLocals(k)
            /\ HasReturned(k) =>
                  invocations[k].result = AloneResult(k, invocations[k].found)

\* C21 witness: two uploads in flight together were given different file
\* ids, and both have sent their Finalize and returned.
C21_Witness ==
    /\ invocations # << >>
    /\ \E j, k \in Ids :
          /\ j # k
          /\ invocations[j].kind = "upload" /\ invocations[k].kind = "upload"
          /\ HasReturned(j) /\ HasReturned(k)
          /\ Len(invocations[j].sent) = 3 /\ Len(invocations[k].sent) = 3
          /\ invocations[j].sent[3].file_id = "F1"
          /\ invocations[k].sent[3].file_id = "F2"

----------------------------------------------------------------------------
(* Termination of a call. *)

\* C22: when every remote call and every file operation a call has started
\* completes, with success or with an error (an error of the local write
\* stream or of the response stream of a download included), the call
\* eventually returns a result.
C22_InvokeEventuallyReturns == (pc # "idle") ~> Returned

----------------------------------------------------------------------------
(* Containment of the download. *)

\* C23: for every attachment name the remote supplies, "." and ".." and
\* names with separators included, the local path the download writes to is
\* a file directly inside the output folder: never the folder itself, its
\* parent or a path outside it.
C23_PathInsideFolder ==
    localPath # << >> =>
        /\ Len(localPath) = 2
        /\ localPath[1] = attachment.output_folder
        /\ localPath[2] \notin {<< >>, <<".">>, <<".", ".">>}

====
